---- MODULE Spec2Model ----
(***************************************************************************)
(* A model of DucklingDB's storage engine: the slotted page                *)
(* (src/src/slotted_page.rs), the disk manager (src/src/disk_manager.rs),  *)
(* the buffer pool with its clock replacer (src/src/buffer_manager.rs) and *)
(* the heap file (src/src/heap_file.rs).                                   *)
(*                                                                         *)
(* A page is a byte array; the header and the slot directory are read and  *)
(* written as little-endian u16 values at the byte offsets the code uses,  *)
(* so a payload that runs into the directory corrupts it here as it does   *)
(* in the program.  The page is scaled down from 4096 bytes to PAGE_SIZE   *)
(* bytes; every formula is stated in terms of PAGE_SIZE.                   *)
(*                                                                         *)
(* A Rust panic (slice index out of range, unwrap/expect on an error,      *)
(* arithmetic overflow in a build with overflow checks) ends the program:  *)
(* the variable panicked becomes TRUE and no action is enabled any more.   *)
(***************************************************************************)
EXTENDS Integers, Sequences, FiniteSets, TLC

VARIABLES
    page,             \* the buffer a SlottedPage views (slotted-page specification)
    pageOp,           \* the last slotted-page call: its name, arguments and result
    bpm,              \* the BufferPoolManager, with the DiskManager it owns
    poolOp,           \* the last buffer-pool call: its name, arguments and result
    unpinned,         \* history: page id -> the bytes its frame held at the last
                      \* unpin_page(p, true), while no caller has written to it since
    pages,            \* HeapFile.pages: the page ids of the heap file, in order
    heapOp,           \* the last heap-file call: its name, arguments and result
    issued,           \* history: the <<TupleId, payload>> pairs insert_tuple returned
    inserted,         \* history: the number of inserts on page that returned a slot
    disk,             \* a DiskManager on its own (disk-manager specification)
    diskOp,           \* the last disk-manager call: its name, argument and result
    threads,          \* the threads that share bpm: each one's position in the call
                      \* it is running and its HeapFile (lock specification)
    locks,            \* the holder of the pool lock, of each frame lock and of the
                      \* disk lock (0 = free)
    lockOp,           \* the lock acquisitions of the last step, in order
    clock,            \* a ClockReplacer on its own (clock-replacer specification)
    clockOp,          \* the last clock-replacer call: its name, argument and result
    calls,            \* the number of calls made so far
    panicked,         \* TRUE once a call has panicked
    overflow_checks   \* the build: TRUE = u16 overflow panics, FALSE = it wraps

vars == <<page, pageOp, inserted, bpm, poolOp, unpinned, pages, heapOp, issued, disk, diskOp,
          threads, locks, lockOp, clock, clockOp,
          calls, panicked, overflow_checks>>

\* The variables of each specification; a specification leaves the others'
\* variables alone
pageVars == <<page, pageOp, inserted>>
poolVars == <<bpm, poolOp, unpinned>>
heapVars == <<pages, heapOp, issued>>
clockVars == <<clock, clockOp>>
diskVars == <<disk, diskOp>>
lockVars == <<threads, locks, lockOp>>

(***************************************************************************)
(* Bounds of the model.                                                    *)
(***************************************************************************)
PAGE_SIZE == 16       \* bytes in a page (4096 in the program)
MaxLen == 6           \* longest payload handed to a slotted page
MaxPageCalls == 4     \* calls made on the slotted page
MaxSlot == 2          \* largest slot id a caller names
MaxPool == 2          \* largest pool_size
MaxPageId == 3        \* largest page id fetched or allocated
MaxPin == 2           \* largest pin_count a caller lets a frame reach
MaxPoolCalls == 7     \* calls made on the buffer pool
MaxHeapCalls == 4     \* calls made on the heap file
MaxSlotCalls == 5     \* calls made on the slotted page with chosen payload bytes
MaxDiskPageId == 5    \* largest page id written or allocated on the disk manager
MaxDiskCalls == 4     \* calls made on the disk manager
MaxThreads == 2       \* threads that share the buffer pool
MaxThreadCalls == 2   \* heap-file calls each thread makes
MaxClock == 3         \* largest clock replacer
MaxClockCalls == 6    \* calls made on the clock replacer

(***************************************************************************)
(* Program constants.                                                      *)
(***************************************************************************)
INVALID_SLOT == 65535
HDR_FREE_START == 0
HDR_FREE_END == 2
HDR_NUM_SLOTS == 4
SLOT_ENTRY_SIZE == 4
HDR_SIZE == 6
U16_MOD == 256 * 256

Bytes == {0, 7}       \* the byte values payloads are made of

\* The payloads handed to a page: every length up to MaxLen, of one repeated byte.
RECURSIVE Repeat(_, _)
Repeat(b, n) == IF n = 0 THEN <<>> ELSE Append(Repeat(b, n - 1), b)

Payloads == {Repeat(b, n) : n \in 0..MaxLen, b \in Bytes}

None == <<>>
Some(x) == <<x>>

\* A call as the last-call variables record it: its name, arguments and result.
Call(op, slot, tuple, ret) == [op |-> op, slot |-> slot, tuple |-> tuple, ret |-> ret]

\* A buffer-pool call as poolOp records it. hit tells whether the page the call
\* names was resident when the call was made.
\* The records of the disk manager, the replacer, a frame and the pool
Frame(page_id, data, is_dirty, pin_count) ==
    [page_id |-> page_id, data |-> data, is_dirty |-> is_dirty, pin_count |-> pin_count]

Replacer(frames, clock_hand) == [frames |-> frames, clock_hand |-> clock_hand]

Disk(db_file, num_pages) == [db_file |-> db_file, num_pages |-> num_pages]

Pool(buffer_pool, page_table, replacer, disk_manager, free_list) ==
    [buffer_pool |-> buffer_pool, page_table |-> page_table, replacer |-> replacer,
     disk_manager |-> disk_manager, free_list |-> free_list]

TupleId(page_id, slot_id) == [page_id |-> page_id, slot_id |-> slot_id]

PoolCall(op, ret, page_id, is_dirty, hit, evicted, io_ok) ==
    [op |-> op, ret |-> ret, page_id |-> page_id, is_dirty |-> is_dirty, hit |-> hit,
     evicted |-> evicted, io_ok |-> io_ok]

\* A HeapFile call: its name, its result, the payload or the TupleId it was
\* given, and whether a fetch_page it made returned None
HeapCall(op, ret, data, tid, no_frame) ==
    [op |-> op, ret |-> ret, data |-> data, tid |-> tid, no_frame |-> no_frame]

\* A ClockReplacer call: its name, its result, the frame it was given, the
\* frame the last victim() returned that has not been pinned since (pending),
\* and the frames victim() returned that have not been unpinned since
\* (consumed)
ClockCall(op, ret, frame_id, pending, consumed) ==
    [op |-> op, ret |-> ret, frame_id |-> frame_id, pending |-> pending,
     consumed |-> consumed]

\* A DiskManager call: its name, its result, the page id it was given, and
\* the page ids allocate_page returned or write_page was given so far (used)
DiskCall(op, ret, page_id, used) == [op |-> op, ret |-> ret, page_id |-> page_id, used |-> used]

\* A thread: the HeapFile call it runs (op, with its payload or TupleId),
\* the page and the frame it works on, its position in the call (pc), the
\* index of the insert_tuple loop, the pages of its HeapFile, what
\* SlottedPage::insert / read returned, whether the page is the freshly
\* allocated one, and the calls it has left to make
Thread(op, page_id, data, tid, frame_id, pc, loop_idx, heap_pages, slot_opt, is_fresh, calls_left) ==
    [op |-> op, page_id |-> page_id, data |-> data, tid |-> tid, frame_id |-> frame_id,
     pc |-> pc, loop_idx |-> loop_idx, heap_pages |-> heap_pages, slot_opt |-> slot_opt,
     is_fresh |-> is_fresh, calls_left |-> calls_left]

\* The mutexes: Mutex<BufferPoolManager>, each Mutex<Frame>, Mutex<DiskManager>
Locks(pool_lock, frame_locks, disk_lock) ==
    [pool_lock |-> pool_lock, frame_locks |-> frame_locks, disk_lock |-> disk_lock]

\* A lock acquisition: the thread, the kind of lock, the kinds it held
Acquire(by_thread, lock_kind, held_kinds) ==
    [by_thread |-> by_thread, lock_kind |-> lock_kind, held_kinds |-> held_kinds]

\* The result of a call on a page: the buffer after it, the value returned,
\* and whether the call panicked instead of returning.
Ret(buf, ret) == [buf |-> buf, ret |-> ret, panic |-> FALSE]
Panic(buf) == [buf |-> buf, ret |-> None, panic |-> TRUE]

(***************************************************************************)
(* Little-endian u16 fields of a page buffer.                              *)
(***************************************************************************)
GetU16(buf, at) == buf[at] + 256 * buf[at + 1]

PutU16(buf, at, val) ==
    [i \in DOMAIN buf |->
        IF i = at THEN val % 256
        ELSE IF i = at + 1 THEN (val \div 256) % 256
        ELSE buf[i]]

\* buf[at .. at+Len(bytes)) <- bytes   (copy_from_slice)
CopyIn(buf, at, bytes) ==
    [i \in DOMAIN buf |->
        IF at <= i /\ i < at + Len(bytes) THEN bytes[i - at + 1] ELSE buf[i]]

\* buf[from .. from+len) as a byte sequence
RECURSIVE Slice(_, _, _)
Slice(buf, from, len) ==
    IF len = 0 THEN <<>> ELSE Append(Slice(buf, from, len - 1), buf[from + len - 1])

\* a slice buf[from .. from+len) is in range
InRange(from, len) == from + len <= PAGE_SIZE

ZeroPage == [i \in 0..(PAGE_SIZE - 1) |-> 0]

free_start(buf) == GetU16(buf, HDR_FREE_START)
free_end(buf) == GetU16(buf, HDR_FREE_END)
num_slots(buf) == GetU16(buf, HDR_NUM_SLOTS)

set_free_start(buf, val) == PutU16(buf, HDR_FREE_START, val)
set_free_end(buf, val) == PutU16(buf, HDR_FREE_END, val)
set_num_slots(buf, val) == PutU16(buf, HDR_NUM_SLOTS, val)

\* SlottedPage::init
init(buf) == set_num_slots(set_free_end(set_free_start(buf, HDR_SIZE), PAGE_SIZE), 0)

\* The byte offset of a slot entry; a negative value is the usize underflow
\* of the subtraction, which panics (directly, or at the slice it indexes).
slot_offset(slot_id) == PAGE_SIZE - ((slot_id + 1) * SLOT_ENTRY_SIZE)

SlotInPage(slot_id) == slot_offset(slot_id) >= 0

read_slot(buf, slot_id) ==
    [offset |-> GetU16(buf, slot_offset(slot_id)),
     len    |-> GetU16(buf, slot_offset(slot_id) + 2)]

write_slot(buf, slot_id, offset, len) ==
    PutU16(PutU16(buf, slot_offset(slot_id), offset), slot_offset(slot_id) + 2, len)

\* SlottedPage::insert
\* insert that also refuses a tuple that fits the free space exactly
insert_refuses_exact_fit(buf, tuple) ==
    LET num == num_slots(buf)
        fs == free_start(buf)
        fe == free_end(buf)
        len16 == Len(tuple) % U16_MOD
        need_space == (len16 + SLOT_ENTRY_SIZE) % U16_MOD
    IN  IF (fs + need_space) % U16_MOD >= fe THEN Ret(buf, None)
        ELSE IF ~InRange(fs, Len(tuple)) THEN Panic(buf)
        ELSE IF ~SlotInPage(num) THEN Panic(buf)
        ELSE LET b1 == CopyIn(buf, fs, tuple)
                 b2 == set_free_start(b1, (fs + len16) % U16_MOD)
                 b3 == set_num_slots(b2, (num + 1) % U16_MOD)
                 b4 == set_free_end(b3, (fe - SLOT_ENTRY_SIZE) % U16_MOD)
             IN  Ret(write_slot(b4, num, fs, len16), Some(num))

insert(buf, tuple) ==
    LET num == num_slots(buf)
        fs == free_start(buf)
        fe == free_end(buf)
        len16 == Len(tuple) % U16_MOD
        need_raw == len16 + SLOT_ENTRY_SIZE
        need_space == need_raw % U16_MOD
        sum_raw == fs + need_space
    IN  IF overflow_checks /\ (need_raw >= U16_MOD \/ sum_raw >= U16_MOD) THEN Panic(buf)
        ELSE IF sum_raw % U16_MOD > fe THEN Ret(buf, None)
        ELSE IF ~InRange(fs, Len(tuple)) THEN Panic(buf)
        ELSE IF overflow_checks /\ fs + len16 >= U16_MOD THEN Panic(buf)
        ELSE IF overflow_checks /\ num + 1 >= U16_MOD THEN Panic(buf)
        ELSE IF overflow_checks /\ fe < SLOT_ENTRY_SIZE THEN Panic(buf)
        ELSE IF ~SlotInPage(num) THEN Panic(buf)
        ELSE LET b1 == CopyIn(buf, fs, tuple)
                 b2 == set_free_start(b1, (fs + len16) % U16_MOD)
                 b3 == set_num_slots(b2, (num + 1) % U16_MOD)
                 b4 == set_free_end(b3, (fe - SLOT_ENTRY_SIZE) % U16_MOD)
             IN  Ret(write_slot(b4, num, fs, len16), Some(num))

\* SlottedPage::read
read(buf, slot) ==
    IF slot >= num_slots(buf) THEN Ret(buf, None)
    ELSE IF ~SlotInPage(slot) THEN Panic(buf)
    ELSE LET e == read_slot(buf, slot)
         IN  IF e.len = INVALID_SLOT THEN Ret(buf, None)
             ELSE IF ~InRange(e.offset, e.len) THEN Panic(buf)
             ELSE Ret(buf, Some(Slice(buf, e.offset, e.len)))

\* SlottedPage::delete
delete(buf, slot) ==
    IF slot >= num_slots(buf) THEN Ret(buf, FALSE)
    ELSE IF ~SlotInPage(slot) THEN Panic(buf)
    ELSE LET e == read_slot(buf, slot)
         IN  IF e.len = INVALID_SLOT THEN Ret(buf, FALSE)
             ELSE Ret(write_slot(buf, slot, e.offset, INVALID_SLOT), TRUE)

\* The live slots of a page as compact() collects them, (slot_id, offset, len),
\* stable-sorted by offset: the list is built in slot order, so ties keep it.
Before(buf, s, t) ==
    \/ read_slot(buf, s).offset < read_slot(buf, t).offset
    \/ read_slot(buf, s).offset = read_slot(buf, t).offset /\ s <= t

RECURSIVE SortByOffset(_, _)
SortByOffset(buf, S) ==
    IF S = {} THEN <<>>
    ELSE LET m == CHOOSE s \in S : \A t \in S : Before(buf, s, t)
         IN  <<[slot_id |-> m, offset |-> read_slot(buf, m).offset, len |-> read_slot(buf, m).len]>>
             \o SortByOffset(buf, S \ {m})

LiveTuples(buf) ==
    SortByOffset(buf, {s \in 0..(num_slots(buf) - 1) : read_slot(buf, s).len # INVALID_SLOT})

\* The rebuild loop of compact(): move each tuple down to new_free_start and
\* repoint its slot. The result's ret is the final new_free_start.
RECURSIVE CompactMove(_, _, _)
CompactMove(buf, tuples, new_free_start) ==
    IF tuples = <<>> THEN Ret(buf, new_free_start)
    ELSE LET t == Head(tuples)
         IN  IF ~InRange(t.offset, t.len) \/ ~InRange(new_free_start, t.len) THEN Panic(buf)
             ELSE CompactMove(
                    write_slot(CopyIn(buf, new_free_start, Slice(buf, t.offset, t.len)),
                               t.slot_id, new_free_start, t.len),
                    Tail(tuples), new_free_start + t.len)

\* The free_end compact() stores.
CompactFreeEnd(num, live) == PAGE_SIZE - (num - live) * SLOT_ENTRY_SIZE

\* SlottedPage::compact
compact(buf) ==
    LET num == num_slots(buf)
    IN  IF num > 0 /\ ~SlotInPage(num - 1) THEN Panic(buf)
        ELSE LET tuples == LiveTuples(buf)
                 moved == CompactMove(buf, tuples, HDR_SIZE)
             IN  IF moved.panic THEN Panic(buf)
                 ELSE Ret(set_free_end(set_free_start(moved.buf, moved.ret),
                                       CompactFreeEnd(num, Len(tuples))),
                          TRUE)

\* SlottedPage::largest_contiguous_free
largest_contiguous_free(buf) ==
    IF free_end(buf) >= free_start(buf) THEN free_end(buf) - free_start(buf) ELSE 0

\* The relocating tail of update(): write at free_start, repoint the same slot.
Relocate(buf, slot, new_tuple) ==
    LET new_off == free_start(buf)
        new_len == Len(new_tuple) % U16_MOD
    IN  IF ~InRange(new_off, Len(new_tuple)) THEN Panic(buf)
        ELSE Ret(write_slot(set_free_start(CopyIn(buf, new_off, new_tuple),
                                           (new_off + new_len) % U16_MOD),
                            slot, new_off, new_len),
                 TRUE)

\* SlottedPage::update
update(buf, slot, new_tuple) ==
    IF slot >= num_slots(buf) THEN Ret(buf, FALSE)
    ELSE IF ~SlotInPage(slot) THEN Panic(buf)
    ELSE LET e == read_slot(buf, slot)
         IN  IF e.len = INVALID_SLOT THEN Ret(buf, FALSE)
             ELSE IF Len(new_tuple) % U16_MOD <= e.len THEN
                 IF ~InRange(e.offset, Len(new_tuple)) THEN Panic(buf)
                 ELSE Ret(write_slot(CopyIn(buf, e.offset, new_tuple), slot, e.offset,
                                     Len(new_tuple) % U16_MOD),
                          TRUE)
             ELSE IF largest_contiguous_free(buf) < Len(new_tuple) THEN
                 LET c == compact(buf)
                 IN  IF c.panic THEN Panic(buf)
                     ELSE IF largest_contiguous_free(c.buf) < Len(new_tuple) THEN Ret(c.buf, FALSE)
                     ELSE Relocate(c.buf, slot, new_tuple)
             ELSE Relocate(buf, slot, new_tuple)

(***************************************************************************)
(* The slotted page as a state machine: one page created by init, and the  *)
(* calls a caller can make on it.                                          *)
(***************************************************************************)
SlotIds == 0..MaxSlot

InitPage ==
    /\ page = init(ZeroPage)
    /\ pageOp = Call("init", 0, <<>>, None)
    /\ bpm = None
    /\ poolOp = None
    /\ unpinned = None
    /\ pages = None
    /\ heapOp = None
    /\ issued = {}
    /\ clock = None
    /\ clockOp = None
    /\ threads = None
    /\ locks = None
    /\ lockOp = None
    /\ inserted = 0
    /\ disk = None
    /\ diskOp = None
    /\ calls = 0
    /\ panicked = FALSE
    /\ overflow_checks \in BOOLEAN

\* The step a call makes: it panics, or it leaves its buffer and its result.
PageStep(r, op, slot, tuple) ==
    /\ ~panicked
    /\ calls < MaxPageCalls
    /\ calls' = calls + 1
    /\ panicked' = r.panic
    /\ page' = IF r.panic THEN page ELSE r.buf
    /\ pageOp' = Call(op, slot, tuple, r.ret)
    /\ inserted' = IF op = "insert" /\ ~r.panic /\ r.ret # None THEN inserted + 1
                   ELSE inserted
    /\ UNCHANGED <<poolVars, heapVars, clockVars, diskVars, lockVars, overflow_checks>>

PageInsert == \E t \in Payloads : PageStep(insert(page, t), "insert", 0, t)

PageRead == \E s \in SlotIds : PageStep(read(page, s), "read", s, <<>>)

PageUpdate == \E s \in SlotIds, t \in Payloads : PageStep(update(page, s, t), "update", s, t)

PageDelete == \E s \in SlotIds : PageStep(delete(page, s), "delete", s, <<>>)

PageCompact == PageStep(compact(page), "compact", 0, <<>>)

NextPage == PageInsert \/ PageRead \/ PageUpdate \/ PageDelete \/ PageCompact

SpecPage == InitPage /\ [][NextPage]_vars

(***************************************************************************)
(* Properties of the slotted page.                                         *)
(***************************************************************************)
\* The slots whose directory entry lies inside the page.
PageSlots == 0..((PAGE_SIZE \div SLOT_ENTRY_SIZE) - 1)

Live(buf, s) == s < num_slots(buf) /\ read_slot(buf, s).len # INVALID_SLOT

\* C2: after every sequence of insert, update, delete and compact on a page
\* created by init, free_start <= free_end, free_end = PAGE_SIZE - 4*num_slots,
\* and every non-deleted slot's bytes lie within [6, free_start).
C2_LayoutInvariant ==
    ~panicked =>
        /\ free_start(page) <= free_end(page)
        /\ free_end(page) = PAGE_SIZE - SLOT_ENTRY_SIZE * num_slots(page)
        /\ \A s \in PageSlots :
              Live(page, s) =>
                  /\ HDR_SIZE <= read_slot(page, s).offset
                  /\ read_slot(page, s).offset + read_slot(page, s).len <= free_start(page)

\* C3: a slot that reads b still reads b after a call that returns and is not
\* an update or delete of that slot.
C3_UntouchedSlotKeepsData ==
    [][\A s \in PageSlots :
          ( /\ ~read(page, s).panic
            /\ read(page, s).ret # None
            /\ ~panicked'
            /\ ~(pageOp'.op \in {"update", "delete"} /\ pageOp'.slot = s) )
          => read(page', s) = Ret(page', read(page, s).ret)]_vars

\* C4: when update(s, new) returns true, read(s) right after it returns new.
C4_UpdateThenRead ==
    [][( /\ pageOp'.op = "update"
         /\ ~panicked'
         /\ pageOp'.ret = TRUE )
       => read(page', pageOp'.slot) = Ret(page', Some(pageOp'.tuple))]_vars

Max(a, b) == IF a >= b THEN a ELSE b

\* DiskManager::new on a file that holds db_file
DiskManagerNew(db_file) == Disk(db_file, 0)

\* DiskManager::read_page succeeds: the page lies inside the file
CanRead(dm, page_id) == page_id < Len(dm.db_file)

ReadPage(dm, page_id) == dm.db_file[page_id + 1]

\* write_page that sets num_pages to page_id + 1 on every write
WritePage_resets_num_pages(d, page_id, pg) ==
    Disk([i \in 1..Max(Len(d.db_file), page_id + 1) |->
             IF i = page_id + 1 THEN pg
             ELSE IF i <= Len(d.db_file) THEN d.db_file[i]
             ELSE ZeroPage],
         page_id + 1)

\* DiskManager::write_page: a write past the end of the file extends it,
\* the pages skipped read as zeros
WritePage(dm, page_id, pg) ==
    Disk([i \in 1..Max(Len(dm.db_file), page_id + 1) |->
             IF i = page_id + 1 THEN pg
             ELSE IF i <= Len(dm.db_file) THEN dm.db_file[i]
             ELSE ZeroPage],
         Max(dm.num_pages, page_id + 1))

\* The id DiskManager::allocate_page returns
NewPageId(dm) == dm.num_pages + 1

\* DiskManager::allocate_page: the disk manager after it
AllocatePage(dm) ==
    WritePage(Disk(dm.db_file, dm.num_pages + 1), NewPageId(dm), ZeroPage)

(***************************************************************************)
(* The clock replacer.  frames[i] is None or Some(i).                      *)
(***************************************************************************)
ClockReplacerNew(pool_size) == Replacer([i \in 0..(pool_size - 1) |-> None], 0)

\* ClockReplacer::victim: the loop, with iter iterations left. The result is
\* the replacer after the call and the frame returned.
RECURSIVE VictimLoop(_, _)
VictimLoop(rep, iter) ==
    IF iter = 0 THEN [replacer |-> rep, ret |-> None]
    ELSE LET frame_id == rep.clock_hand
             next == Replacer(rep.frames, (rep.clock_hand + 1) % Cardinality(DOMAIN rep.frames))
         IN  IF rep.frames[frame_id] # None
             THEN [replacer |-> next, ret |-> rep.frames[frame_id]]
             ELSE VictimLoop(next, iter - 1)

\* victim that scans from slot 0 instead of from the clock hand
victim_from_zero(rep) ==
    VictimLoop(Replacer(rep.frames, 0), 2 * Cardinality(DOMAIN rep.frames))

\* victim that never finds a frame
victim_finds_none(rep) == [replacer |-> rep, ret |-> None]

victim(rep) == VictimLoop(rep, 2 * Cardinality(DOMAIN rep.frames))

\* ClockReplacer::pin
pin(rep, frame_id) == Replacer([rep.frames EXCEPT ![frame_id] = None], rep.clock_hand)

\* ClockReplacer::unpin
unpin(rep, frame_id) == Replacer([rep.frames EXCEPT ![frame_id] = Some(frame_id)], rep.clock_hand)

(***************************************************************************)
(* The buffer pool manager.                                                *)
(***************************************************************************)
\* BufferPoolManager::new
BufferPoolManagerNew(pool_size, disk_manager) ==
    Pool([i \in 0..(pool_size - 1) |-> Frame(0, ZeroPage, FALSE, 0)],
         <<>>,
         ClockReplacerNew(pool_size),
         disk_manager,
         [k \in 1..pool_size |-> k - 1])

\* The result of a call on the pool: the pool after it, the value returned
\* (a frame index stands for the frame handle), and whether it panicked.
PoolRet(b, ret) == [bpm |-> b, ret |-> ret, panic |-> FALSE]
PoolPanic(b) == [bpm |-> b, ret |-> None, panic |-> TRUE]

Resident(b, page_id) == page_id \in DOMAIN b.page_table

\* page_table.insert / page_table.remove (page_table is a function on the
\* resident page ids)
TableInsert(page_table, page_id, frame_id) ==
    [p \in (DOMAIN page_table) \cup {page_id} |->
        IF p = page_id THEN frame_id ELSE page_table[p]]

TableRemove(page_table, page_id) ==
    [p \in (DOMAIN page_table) \ {page_id} |-> page_table[p]]

\* The frame fetch_page and new_page pick for a page that is not resident:
\* free_list.pop(), else replacer.victim(). The result gives the pool after
\* the pick (the victim written back when dirty and unmapped), the frame
\* picked (None when there is none), and whether the write-back panicked.
PickFrame(b, io_ok) ==
    IF b.free_list # <<>> THEN
        PoolRet([b EXCEPT !.free_list = SubSeq(b.free_list, 1, Len(b.free_list) - 1)],
                Some(b.free_list[Len(b.free_list)]))
    ELSE LET v == victim(b.replacer)
             b1 == [b EXCEPT !.replacer = v.replacer]
         IN  IF v.ret = None THEN PoolRet(b1, None)
             ELSE LET victim_frame == b.buffer_pool[v.ret[1]]
                  IN  IF victim_frame.is_dirty /\ ~io_ok THEN PoolPanic(b1)
                      ELSE PoolRet(
                             [b1 EXCEPT
                                !.disk_manager =
                                    IF victim_frame.is_dirty
                                    THEN WritePage(b.disk_manager, victim_frame.page_id,
                                                   victim_frame.data)
                                    ELSE b.disk_manager,
                                !.page_table = TableRemove(b.page_table, victim_frame.page_id)],
                             v.ret)

\* BufferPoolManager::new_page
new_page(b, io_ok) ==
    LET picked == PickFrame(b, io_ok)
    IN  IF picked.panic \/ picked.ret = None THEN picked
        ELSE IF ~io_ok THEN
            \* allocate_page panics in write_page, num_pages already raised
            PoolPanic([picked.bpm EXCEPT !.disk_manager.num_pages = @ + 1])
        ELSE LET frame_id == picked.ret[1]
                 b1 == picked.bpm
                 new_page_id == NewPageId(b1.disk_manager)
             IN  PoolRet(
                   [b1 EXCEPT
                      !.disk_manager = AllocatePage(b1.disk_manager),
                      !.buffer_pool[frame_id] = Frame(new_page_id, ZeroPage, FALSE, 1),
                      !.page_table = TableInsert(b1.page_table, new_page_id, frame_id),
                      !.replacer = pin(b1.replacer, frame_id)],
                   Some(frame_id))

\* BufferPoolManager::fetch_page
fetch_page(b, page_id, io_ok) ==
    IF Resident(b, page_id) THEN
        LET frame_id == b.page_table[page_id]
        IN  PoolRet([b EXCEPT !.buffer_pool[frame_id].pin_count = @ + 1,
                              !.replacer = pin(b.replacer, frame_id)],
                    Some(frame_id))
    ELSE
        LET picked == PickFrame(b, io_ok)
        IN  IF picked.panic \/ picked.ret = None THEN picked
            ELSE IF ~io_ok \/ ~CanRead(picked.bpm.disk_manager, page_id) THEN
                \* read_page panics after the frame's fields are set and before
                \* the page table and the replacer are updated
                PoolPanic([picked.bpm EXCEPT
                             !.buffer_pool[picked.ret[1]] =
                                 Frame(page_id, @.data, FALSE, 1)])
            ELSE LET frame_id == picked.ret[1]
                     b1 == picked.bpm
                 IN  PoolRet(
                       [b1 EXCEPT
                          !.buffer_pool[frame_id] =
                              Frame(page_id, ReadPage(b1.disk_manager, page_id), FALSE, 1),
                          !.page_table = TableInsert(b1.page_table, page_id, frame_id),
                          !.replacer = pin(b1.replacer, frame_id)],
                       Some(frame_id))

\* unpin_page that stores the caller's flag over the frame's dirty flag
unpin_page_overwrites_dirty(b, page_id, is_dirty) ==
    IF ~Resident(b, page_id) THEN PoolRet(b, FALSE)
    ELSE LET frame_id == b.page_table[page_id]
             frame == b.buffer_pool[frame_id]
         IN  IF frame.pin_count > 0 THEN
                 PoolRet([b EXCEPT
                            !.buffer_pool[frame_id] =
                                Frame(frame.page_id, frame.data, is_dirty, frame.pin_count - 1),
                            !.replacer = IF frame.pin_count - 1 = 0
                                         THEN unpin(b.replacer, frame_id)
                                         ELSE b.replacer],
                         TRUE)
             ELSE PoolRet(b, FALSE)

\* unpin_page that hands the frame to the replacer on every successful unpin,
\* also while other pins remain
unpin_page_always_candidate(b, page_id, is_dirty) ==
    IF ~Resident(b, page_id) THEN PoolRet(b, FALSE)
    ELSE LET frame_id == b.page_table[page_id]
             frame == b.buffer_pool[frame_id]
         IN  IF frame.pin_count > 0 THEN
                 PoolRet([b EXCEPT
                            !.buffer_pool[frame_id] =
                                Frame(frame.page_id, frame.data, frame.is_dirty \/ is_dirty,
                                      frame.pin_count - 1),
                            !.replacer = unpin(b.replacer, frame_id)],
                         TRUE)
             ELSE PoolRet(b, FALSE)

\* BufferPoolManager::unpin_page
unpin_page(b, page_id, is_dirty) ==
    IF ~Resident(b, page_id) THEN PoolRet(b, FALSE)
    ELSE LET frame_id == b.page_table[page_id]
             frame == b.buffer_pool[frame_id]
         IN  IF frame.pin_count > 0 THEN
                 PoolRet([b EXCEPT
                            !.buffer_pool[frame_id] =
                                Frame(frame.page_id, frame.data, frame.is_dirty \/ is_dirty,
                                      frame.pin_count - 1),
                            !.replacer = IF frame.pin_count - 1 = 0
                                         THEN unpin(b.replacer, frame_id)
                                         ELSE b.replacer],
                         TRUE)
             ELSE PoolRet(b, FALSE)

(***************************************************************************)
(* The buffer pool as a state machine: a caller fetches, creates, writes   *)
(* and unpins pages. The backing file is fresh, or holds the two pages an  *)
(* earlier run left behind (main.rs writes a page of 2s and a page of 1s   *)
(* and then opens the file again).                                         *)
(***************************************************************************)
FilledPage(b) == [i \in 0..(PAGE_SIZE - 1) |-> b]

BackingFiles == {<<>>, <<FilledPage(2), FilledPage(1)>>}

PageIds == 0..MaxPageId

FrameIds(b) == DOMAIN b.buffer_pool

InitPool ==
    /\ \E pool_size \in 1..MaxPool, db_file \in BackingFiles :
          bpm = BufferPoolManagerNew(pool_size, DiskManagerNew(db_file))
    /\ poolOp = PoolCall("new", None, 0, FALSE, FALSE, None, TRUE)
    /\ unpinned = <<>>
    /\ pages = <<>>
    /\ heapOp = None
    /\ issued = {}
    /\ clock = None
    /\ clockOp = None
    /\ threads = None
    /\ locks = None
    /\ lockOp = None
    /\ page = ZeroPage
    /\ pageOp = None
    /\ inserted = 0
    /\ disk = None
    /\ diskOp = None
    /\ calls = 0
    /\ panicked = FALSE
    /\ overflow_checks = FALSE

\* The page id of the frame a call took from the replacer and re-targeted
Evicted(b, r, op, page_id) ==
    IF /\ op \in {"fetch_page", "new_page"}
       /\ ~(op = "fetch_page" /\ Resident(b, page_id))
       /\ b.free_list = <<>>
       /\ ~r.panic
       /\ r.ret # None
    THEN Some(b.buffer_pool[r.ret[1]].page_id)
    ELSE None

\* One call on the pool with result r
PoolStep(r, op, page_id, is_dirty, io_ok) ==
    /\ ~panicked
    /\ calls < MaxPoolCalls
    /\ calls' = calls + 1
    /\ panicked' = r.panic
    /\ bpm' = r.bpm
    /\ poolOp' = PoolCall(op, r.ret, page_id, is_dirty, Resident(bpm, page_id),
                          Evicted(bpm, r, op, page_id), io_ok)
    /\ UNCHANGED <<pageVars, heapVars, clockVars, diskVars, lockVars, overflow_checks>>

PoolFetch ==
    \E page_id \in PageIds, io_ok \in BOOLEAN :
        /\ Resident(bpm, page_id) => bpm.buffer_pool[bpm.page_table[page_id]].pin_count < MaxPin
        /\ PoolStep(fetch_page(bpm, page_id, io_ok), "fetch_page", page_id, FALSE, io_ok)
        /\ UNCHANGED unpinned

PoolNewPage ==
    \E io_ok \in BOOLEAN :
        /\ NewPageId(bpm.disk_manager) <= MaxPageId
        /\ PoolStep(new_page(bpm, io_ok), "new_page", NewPageId(bpm.disk_manager), FALSE,
                    io_ok)
        /\ UNCHANGED unpinned

\* unpinned remembers, for a page id, the bytes its frame held at the last
\* unpin_page(page_id, true) that returned true
PoolUnpin ==
    \E page_id \in PageIds, is_dirty \in BOOLEAN :
        /\ PoolStep(unpin_page(bpm, page_id, is_dirty), "unpin_page", page_id, is_dirty,
                    TRUE)
        /\ unpinned' = IF is_dirty /\ unpin_page(bpm, page_id, is_dirty).ret
                       THEN TableInsert(unpinned, page_id,
                                        bpm.buffer_pool[bpm.page_table[page_id]].data)
                       ELSE unpinned

\* A caller that holds a pin on frame_id writes into the frame's buffer
PoolWrite ==
    \E frame_id \in FrameIds(bpm) :
        /\ ~panicked
        /\ calls < MaxPoolCalls
        /\ bpm.buffer_pool[frame_id].pin_count > 0
        /\ calls' = calls + 1
        /\ bpm' = [bpm EXCEPT !.buffer_pool[frame_id].data = CopyIn(@, 0, <<7>>)]
        /\ poolOp' = PoolCall("write", Some(frame_id), bpm.buffer_pool[frame_id].page_id,
                              FALSE, TRUE, None, TRUE)
        /\ unpinned' = TableRemove(unpinned, bpm.buffer_pool[frame_id].page_id)
        /\ UNCHANGED <<pageVars, heapVars, clockVars, diskVars, lockVars, panicked, overflow_checks>>

NextPool == PoolFetch \/ PoolNewPage \/ PoolUnpin \/ PoolWrite

SpecPool == InitPool /\ [][NextPool]_vars

\* The frames that are not on the free list
NonFree(b) == {i \in FrameIds(b) : \A k \in DOMAIN b.free_list : b.free_list[k] # i}

\* C7: after any sequence of fetch_page, new_page and unpin_page calls, on a
\* fresh backing file or on one that holds pages of an earlier run, every
\* resident page id is held by exactly one non-free frame, the one the page
\* table maps it to.
C7_OneFramePerPage ==
    ~panicked =>
        \A p \in DOMAIN bpm.page_table :
            {i \in NonFree(bpm) : bpm.buffer_pool[i].page_id = p} = {bpm.page_table[p]}

\* The call just made took a frame for a page that was not resident: a
\* fetch_page miss or a new_page, returned without a panic
TookFrame == /\ poolOp'.op \in {"fetch_page", "new_page"}
             /\ ~(poolOp'.op = "fetch_page" /\ poolOp'.hit)
             /\ calls' = calls + 1
             /\ ~panicked'

AllPinned(b) == \A i \in FrameIds(b) : b.buffer_pool[i].pin_count > 0

\* C8: in every reachable pool state a frame with pin_count > 0 is not a
\* candidate of the clock replacer, and the frame a fetch_page miss or a
\* new_page takes from the replacer has pin_count = 0.
C8_PinnedNeverEvicted ==
    /\ [](~panicked =>
            \A i \in FrameIds(bpm) :
                bpm.buffer_pool[i].pin_count > 0 => bpm.replacer.frames[i] = None)
    /\ [][(TookFrame /\ poolOp'.evicted # None)
            => bpm.buffer_pool[poolOp'.ret[1]].pin_count = 0]_vars

\* A fetch_page miss evicted a frame while the other frame stayed pinned
C8_Witness ==
    /\ poolOp.op = "fetch_page"
    /\ poolOp.evicted # None
    /\ \E i \in FrameIds(bpm) : i # poolOp.ret[1] /\ bpm.buffer_pool[i].pin_count > 0

\* C9: a fetch_page miss or a new_page returns None exactly when the free
\* list is empty and every frame has pin_count > 0, and the call that
\* follows an unpin_page that brought a frame's pin_count to 0 returns a frame.
C9_NoneIffAllPinned ==
    [][TookFrame =>
         /\ (poolOp'.ret = None) <=> (bpm.free_list = <<>> /\ AllPinned(bpm))
         /\ ( /\ poolOp.op = "unpin_page"
              /\ poolOp.ret = TRUE
              /\ bpm.buffer_pool[bpm.page_table[poolOp.page_id]].pin_count = 0 )
            => poolOp'.ret # None]_vars

\* A fetch_page miss or a new_page returned None: the free list is empty and
\* every frame is pinned
C9_Witness ==
    /\ poolOp.op \in {"fetch_page", "new_page"}
    /\ ~(poolOp.op = "fetch_page" /\ poolOp.hit)
    /\ poolOp.ret = None
    /\ ~panicked
    /\ bpm.free_list = <<>>
    /\ AllPinned(bpm)

\* C6: a dirty frame that fetch_page or new_page re-targets has its buffer on
\* disk at its old page id after the call, and a fetch_page that loads page p
\* again after unpin_page(p, true) returns the bytes the frame held at that
\* unpin.
C6_DirtyWrittenBack ==
    [][TookFrame =>
         /\ (poolOp'.evicted # None /\ bpm.buffer_pool[poolOp'.ret[1]].is_dirty)
            => /\ CanRead(bpm'.disk_manager, poolOp'.evicted[1])
               /\ ReadPage(bpm'.disk_manager, poolOp'.evicted[1])
                    = bpm.buffer_pool[poolOp'.ret[1]].data
         /\ ( /\ poolOp'.op = "fetch_page"
              /\ poolOp'.ret # None
              /\ poolOp'.page_id \in DOMAIN unpinned )
            => bpm'.buffer_pool[poolOp'.ret[1]].data = unpinned[poolOp'.page_id]]_vars

(***************************************************************************)
(* The heap file. A call's result gives the pool and the page list after   *)
(* it, the value returned, whether it panicked, and whether a fetch_page   *)
(* it made returned None.                                                  *)
(***************************************************************************)
HeapRet(b, pgs, ret, no_frame) ==
    [bpm |-> b, pages |-> pgs, ret |-> ret, panic |-> FALSE, no_frame |-> no_frame]

HeapPanic(b, pgs) ==
    [bpm |-> b, pages |-> pgs, ret |-> None, panic |-> TRUE, no_frame |-> FALSE]

\* The pool after the caller stores buf in the frame's buffer and, when
\* dirty, sets its is_dirty flag
WithData(b, frame_id, buf, dirty) ==
    [b EXCEPT !.buffer_pool[frame_id].data = buf,
              !.buffer_pool[frame_id].is_dirty = @ \/ dirty]

\* A turn of the loop that unpins every page with dirty = true
Unpinned_always_dirty(b, frame_id, page_id, slot_id_opt) ==
    unpin_page(WithData(b, frame_id, slot_id_opt.buf, slot_id_opt.ret # None),
               page_id, TRUE).bpm

\* HeapFile::insert_tuple, one turn of the loop over self.pages after
\* SlottedPage::insert returned slot_id_opt on the frame fetched: the pool
\* with the frame written and unpinned
Unpinned(b, frame_id, page_id, slot_id_opt) ==
    unpin_page(WithData(b, frame_id, slot_id_opt.buf, slot_id_opt.ret # None),
               page_id, slot_id_opt.ret # None).bpm

\* HeapFile::insert_tuple, the loop over self.pages from index k on. The
\* result carries done = TRUE when the loop returned from insert_tuple.
\* TryInsert is a turn of the loop after fetch_page returned f, TryPage the
\* turn after SlottedPage::insert returned slot_id_opt.
RECURSIVE InsertLoop(_, _, _, _, _)
TryPage(b, frame_id, slot_id_opt, pgs, k, data, io_ok) ==
    IF slot_id_opt.panic THEN [res |-> HeapPanic(b, pgs), done |-> TRUE]
    ELSE IF slot_id_opt.ret # None
    THEN [res |-> HeapRet(Unpinned(b, frame_id, pgs[k], slot_id_opt), pgs,
                          Some(TupleId(pgs[k], slot_id_opt.ret[1])), FALSE),
          done |-> TRUE]
    ELSE InsertLoop(Unpinned(b, frame_id, pgs[k], slot_id_opt), pgs, k + 1, data, io_ok)

TryInsert(f, pgs, k, data, io_ok) ==
    IF f.panic THEN [res |-> HeapPanic(f.bpm, pgs), done |-> TRUE]
    ELSE IF f.ret = None THEN [res |-> HeapRet(f.bpm, pgs, None, TRUE), done |-> TRUE]
    ELSE TryPage(f.bpm, f.ret[1], insert(f.bpm.buffer_pool[f.ret[1]].data, data),
                 pgs, k, data, io_ok)

InsertLoop(b, pgs, k, data, io_ok) ==
    IF k > Len(pgs) THEN [res |-> HeapRet(b, pgs, None, FALSE), done |-> FALSE]
    ELSE TryInsert(fetch_page(b, pgs[k], io_ok), pgs, k, data, io_ok)

\* HeapFile::insert_tuple, after the loop: the page pid was allocated and
\* fetched into frame_id, SlottedPage::init and insert returned sid
FreshInserted(b, frame_id, sid, pgs, pid) ==
    IF sid.panic THEN HeapPanic(WithData(b, frame_id, sid.buf, FALSE), pgs)
    ELSE IF sid.ret = None
    THEN HeapRet(WithData(b, frame_id, sid.buf, FALSE), pgs, None, FALSE)
    ELSE HeapRet(unpin_page(WithData(b, frame_id, sid.buf, TRUE), pid, TRUE).bpm,
                 Append(pgs, pid),
                 Some(TupleId(pid, sid.ret[1])),
                 FALSE)

\* HeapFile::insert_tuple, after the loop: the page pid was allocated and
\* fetch_page(pid) returned f
FreshFetched(f, pgs, pid, data) ==
    IF f.panic THEN HeapPanic(f.bpm, pgs)
    ELSE IF f.ret = None THEN HeapRet(f.bpm, pgs, None, TRUE)
    ELSE FreshInserted(f.bpm, f.ret[1],
                       insert(init(f.bpm.buffer_pool[f.ret[1]].data), data), pgs, pid)

\* HeapFile::insert_tuple, after the loop: a page is allocated, fetched,
\* initialised and the tuple inserted into it
InsertFresh(b, pgs, data, io_ok) ==
    IF ~io_ok THEN HeapPanic([b EXCEPT !.disk_manager.num_pages = @ + 1], pgs)
    ELSE FreshFetched(fetch_page([b EXCEPT !.disk_manager = AllocatePage(b.disk_manager)],
                                 NewPageId(b.disk_manager), io_ok),
                      pgs, NewPageId(b.disk_manager), data)

\* HeapFile::insert_tuple, after the loop returned loop
AfterLoop(loop, pgs, data, io_ok) ==
    IF loop.done THEN loop.res
    ELSE InsertFresh(loop.res.bpm, pgs, data, io_ok)

\* insert_tuple whose loop starts at the second page of the list
insert_tuple_skips_first(b, pgs, data, io_ok) ==
    AfterLoop(InsertLoop(b, pgs, 2, data, io_ok), pgs, data, io_ok)

\* HeapFile::insert_tuple
insert_tuple(b, pgs, data, io_ok) ==
    AfterLoop(InsertLoop(b, pgs, 1, data, io_ok), pgs, data, io_ok)

\* HeapFile::read_tuple, after SlottedPage::read returned data_opt
ReadDone(b, data_opt, pgs, tid) ==
    IF data_opt.panic THEN HeapPanic(b, pgs)
    ELSE HeapRet(unpin_page(b, tid.page_id, FALSE).bpm, pgs, data_opt.ret, FALSE)

\* HeapFile::read_tuple, after fetch_page returned f
ReadFetched(f, pgs, tid) ==
    IF f.panic THEN HeapPanic(f.bpm, pgs)
    ELSE IF f.ret = None THEN HeapRet(f.bpm, pgs, None, TRUE)
    ELSE ReadDone(f.bpm, read(f.bpm.buffer_pool[f.ret[1]].data, tid.slot_id), pgs, tid)

\* HeapFile::read_tuple
read_tuple(b, pgs, tid, io_ok) == ReadFetched(fetch_page(b, tid.page_id, io_ok), pgs, tid)

(***************************************************************************)
(* The heap file as a state machine: one caller inserts tuples and reads   *)
(* the tuples it inserted. The payloads are short ones, ones that fill an  *)
(* empty page exactly (PAGE_SIZE - 10 bytes) and ones a byte too long for  *)
(* any page.                                                               *)
(***************************************************************************)
HeapPayloads == {Repeat(b, n) : n \in {1, PAGE_SIZE - 10, PAGE_SIZE - 9}, b \in Bytes}

InitHeap ==
    /\ \E pool_size \in 1..MaxPool, db_file \in BackingFiles :
          bpm = BufferPoolManagerNew(pool_size, DiskManagerNew(db_file))
    /\ poolOp = None
    /\ unpinned = <<>>
    /\ pages = <<>>
    /\ heapOp = HeapCall("new", None, <<>>, None, FALSE)
    /\ issued = {}
    /\ clock = None
    /\ clockOp = None
    /\ threads = None
    /\ locks = None
    /\ lockOp = None
    /\ page = ZeroPage
    /\ pageOp = None
    /\ inserted = 0
    /\ disk = None
    /\ diskOp = None
    /\ calls = 0
    /\ panicked = FALSE
    /\ overflow_checks \in BOOLEAN

\* One call on the heap file with result r
HeapStep(r, op, data, tid) ==
    /\ ~panicked
    /\ calls < MaxHeapCalls
    /\ calls' = calls + 1
    /\ panicked' = r.panic
    /\ bpm' = r.bpm
    /\ pages' = r.pages
    /\ heapOp' = HeapCall(op, r.ret, data, tid, r.no_frame)
    /\ issued' = IF op = "insert_tuple" /\ ~r.panic /\ r.ret # None
                 THEN issued \cup {<<r.ret[1], data>>}
                 ELSE issued
    /\ UNCHANGED <<pageVars, poolOp, unpinned, clockVars, diskVars, lockVars, overflow_checks>>

HeapInsert ==
    \E data \in HeapPayloads, io_ok \in BOOLEAN :
        HeapStep(insert_tuple(bpm, pages, data, io_ok), "insert_tuple", data, None)

HeapRead ==
    \E e \in issued, io_ok \in BOOLEAN :
        HeapStep(read_tuple(bpm, pages, e[1], io_ok), "read_tuple", <<>>, Some(e[1]))

NextHeap == HeapInsert \/ HeapRead

SpecHeap == InitHeap /\ [][NextHeap]_vars

\* C1: every read_tuple(tid) of a TupleId that insert_tuple(x) returned
\* gives back exactly x, whatever insert_tuple and read_tuple calls were
\* made in between, for every payload and every pool size.
C1_ReadAfterInsert ==
    [][(heapOp'.op = "read_tuple" /\ calls' = calls + 1 /\ ~panicked')
         => \A e \in issued : Some(e[1]) = heapOp'.tid => heapOp'.ret = Some(e[2])]_vars

\* C10: insert_tuple returns None only when a fetch_page call it made found
\* no frame available.
C10_NoneOnlyWithoutFrame ==
    [][(heapOp'.op = "insert_tuple" /\ calls' = calls + 1 /\ ~panicked'
          /\ heapOp'.ret = None)
         => heapOp'.no_frame]_vars

\* The call just made was a fetch_page miss or a new_page that had to write
\* back a dirty victim, and the disk write failed
WriteBackFailed ==
    /\ poolOp'.op \in {"fetch_page", "new_page"}
    /\ ~(poolOp'.op = "fetch_page" /\ poolOp'.hit)
    /\ calls' = calls + 1
    /\ bpm.free_list = <<>>
    /\ victim(bpm.replacer).ret # None
    /\ bpm.buffer_pool[victim(bpm.replacer).ret[1]].is_dirty
    /\ ~poolOp'.io_ok

\* C11: when the write-back of a dirty victim fails during fetch_page or
\* new_page, the call returns None to its caller without a panic, and the
\* victim frame still holds its old page id, is still dirty and is still
\* mapped in page_table.
C11_WriteBackFailureIsLocal ==
    [][WriteBackFailed =>
         /\ ~panicked'
         /\ poolOp'.ret = None
         /\ bpm'.buffer_pool = bpm.buffer_pool
         /\ bpm'.page_table = bpm.page_table]_vars

(***************************************************************************)
(* The clock replacer on its own, as clock_replacer_test drives it: a      *)
(* caller pins and unpins frames and asks for victims in any order.        *)
(***************************************************************************)
ClockSizes == 1..MaxClock

InitClock ==
    /\ \E pool_size \in ClockSizes : clock = ClockReplacerNew(pool_size)
    /\ clockOp = ClockCall("new", None, 0, None, {})
    /\ threads = None
    /\ locks = None
    /\ lockOp = None
    /\ bpm = None
    /\ poolOp = None
    /\ unpinned = <<>>
    /\ pages = <<>>
    /\ heapOp = None
    /\ issued = {}
    /\ page = ZeroPage
    /\ pageOp = None
    /\ inserted = 0
    /\ disk = None
    /\ diskOp = None
    /\ calls = 0
    /\ panicked = FALSE
    /\ overflow_checks = FALSE

\* One call on the replacer: rep is the replacer after it
ClockStep(rep, op, ret, frame_id, pending, consumed) ==
    /\ calls < MaxClockCalls
    /\ calls' = calls + 1
    /\ clock' = rep
    /\ clockOp' = ClockCall(op, ret, frame_id, pending, consumed)
    /\ UNCHANGED <<pageVars, poolVars, heapVars, diskVars, lockVars, panicked, overflow_checks>>

ClockPin ==
    \E frame_id \in DOMAIN clock.frames :
        ClockStep(pin(clock, frame_id), "pin", None, frame_id,
                  IF clockOp.pending = Some(frame_id) THEN None ELSE clockOp.pending,
                  clockOp.consumed)

ClockUnpin ==
    \E frame_id \in DOMAIN clock.frames :
        ClockStep(unpin(clock, frame_id), "unpin", None, frame_id,
                  clockOp.pending, clockOp.consumed \ {frame_id})

ClockVictim ==
    ClockStep(victim(clock).replacer, "victim", victim(clock).ret, 0,
              victim(clock).ret,
              clockOp.consumed \cup {victim(clock).ret[k] : k \in DOMAIN victim(clock).ret})

NextClock == ClockPin \/ ClockUnpin \/ ClockVictim

SpecClock == InitClock /\ [][NextClock]_vars

\* C12: victim() consumes the slot it returns: a frame victim() returned is
\* not returned by a later victim() unless unpin put it back in between.
C12_VictimConsumesSlot ==
    [][(clockOp'.op = "victim" /\ calls' = calls + 1 /\ clockOp'.ret # None)
         => clockOp'.ret[1] \notin clockOp.consumed]_vars

\* The candidates of a replacer, and the distance from the clock hand to
\* slot i in circular index order
Candidates(rep) == {i \in DOMAIN rep.frames : rep.frames[i] # None}

Dist(rep, i) == (i - rep.clock_hand) % Cardinality(DOMAIN rep.frames)

Nearest(rep) ==
    CHOOSE i \in Candidates(rep) : \A j \in Candidates(rep) : Dist(rep, i) <= Dist(rep, j)

C14_UnpinContract ==
    [][(poolOp'.op = "unpin_page" /\ calls' = calls + 1) =>
         IF \/ ~Resident(bpm, poolOp'.page_id)
            \/ bpm.buffer_pool[bpm.page_table[poolOp'.page_id]].pin_count = 0
         THEN /\ poolOp'.ret = FALSE
              /\ bpm' = bpm
         ELSE /\ poolOp'.ret = TRUE
              /\ \A i \in FrameIds(bpm) :
                    IF i = bpm.page_table[poolOp'.page_id]
                    THEN /\ bpm'.buffer_pool[i] =
                              Frame(bpm.buffer_pool[i].page_id, bpm.buffer_pool[i].data,
                                    bpm.buffer_pool[i].is_dirty \/ poolOp'.is_dirty,
                                    bpm.buffer_pool[i].pin_count - 1)
                         /\ (bpm'.replacer.frames[i] # None)
                              <=> (bpm'.buffer_pool[i].pin_count = 0)
                    ELSE /\ bpm'.buffer_pool[i] = bpm.buffer_pool[i]
                         /\ bpm'.replacer.frames[i] = bpm.replacer.frames[i]
              /\ bpm'.replacer.clock_hand = bpm.replacer.clock_hand
              /\ bpm'.page_table = bpm.page_table
              /\ bpm'.free_list = bpm.free_list
              /\ bpm'.disk_manager = bpm.disk_manager]_vars

\* unpin_page(p, false) returned true on a dirty frame that other callers
\* still pin
C14_Witness ==
    /\ poolOp.op = "unpin_page"
    /\ poolOp.ret = TRUE
    /\ ~poolOp.is_dirty
    /\ bpm.buffer_pool[bpm.page_table[poolOp.page_id]].is_dirty
    /\ bpm.buffer_pool[bpm.page_table[poolOp.page_id]].pin_count > 0

(***************************************************************************)
(* A freshly initialised slotted page: SlottedPage::init on a buffer of    *)
(* any content, then one insert of a payload of any length (also lengths   *)
(* around 2^16, where `tuple.len() as u16` truncates), then reads.         *)
(***************************************************************************)
\* The largest payload an empty page can take (4086 in the program)
MaxFit == PAGE_SIZE - HDR_SIZE - SLOT_ENTRY_SIZE

FreshBuffers == {ZeroPage, FilledPage(1), FilledPage(255)}

FreshLens ==
    (0..(MaxFit + 2))
      \cup {U16_MOD - SLOT_ENTRY_SIZE - 1, U16_MOD - SLOT_ENTRY_SIZE, U16_MOD - 1,
            U16_MOD, U16_MOD + 1}

\* A payload of n bytes b
Payload(b, n) == IF n <= PAGE_SIZE THEN Repeat(b, n) ELSE [i \in 1..n |-> b]

InitFresh ==
    /\ \E buf \in FreshBuffers : page = init(buf)
    /\ pageOp = Call("init", 0, <<>>, None)
    /\ bpm = None
    /\ poolOp = None
    /\ unpinned = None
    /\ pages = None
    /\ heapOp = None
    /\ issued = {}
    /\ clock = None
    /\ clockOp = None
    /\ threads = None
    /\ locks = None
    /\ lockOp = None
    /\ inserted = 0
    /\ disk = None
    /\ diskOp = None
    /\ calls = 0
    /\ panicked = FALSE
    /\ overflow_checks \in BOOLEAN

FreshInsert ==
    /\ pageOp.op = "init"
    /\ \E n \in FreshLens, b \in Bytes :
          PageStep(insert(page, Payload(b, n)), "insert", 0, Payload(b, n))

FreshRead ==
    /\ pageOp.op # "init"
    /\ \E s \in SlotIds : PageStep(read(page, s), "read", s, <<>>)

NextFresh == FreshInsert \/ FreshRead

SpecFresh == InitFresh /\ [][NextFresh]_vars

\* C15: insert(x) on a freshly initialised page, for every payload x of at
\* most 4086 bytes (MaxFit here), returns Some(slot 0), and read of slot 0
\* then returns exactly x; for the empty payload that is Some of a
\* zero-length sequence, not None.
C15_FreshInsertFits ==
    [][(pageOp.op = "init" /\ pageOp'.op = "insert" /\ Len(pageOp'.tuple) <= MaxFit)
         => /\ ~panicked'
            /\ pageOp'.ret = Some(0)
            /\ read(page', 0) = Ret(page', Some(pageOp'.tuple))
            /\ read(page', 0).ret # None]_vars

\* insert of the largest payload that fits returned slot 0, and so did the
\* insert of the empty payload
C15_Witness ==
    /\ pageOp.op = "insert"
    /\ Len(pageOp.tuple) = MaxFit
    /\ pageOp.ret = Some(0)
    /\ page # init(ZeroPage)

\* C16: insert of a payload longer than 4086 bytes (MaxFit here) on a
\* freshly initialised page returns None and leaves the page bytes
\* unchanged, whatever the length, also at and above 2^16 - 4.
C16_FreshInsertTooLong ==
    [][(pageOp.op = "init" /\ pageOp'.op = "insert" /\ Len(pageOp'.tuple) > MaxFit)
         => /\ ~panicked'
            /\ pageOp'.ret = None
            /\ page' = page]_vars

(***************************************************************************)
(* The slotted page driven with payloads whose bytes the caller chooses:   *)
(* the empty payload, a payload that ends in the four bytes of a slot      *)
(* entry (offset 0, length HDR_SIZE), and a payload that is the header of  *)
(* an empty page.                                                          *)
(***************************************************************************)
U16Bytes(val) == <<val % 256, val \div 256>>

\* PAGE_SIZE - 10 bytes whose last four are the slot entry (0, HDR_SIZE)
EntryPayload ==
    Repeat(0, PAGE_SIZE - HDR_SIZE - (2 * SLOT_ENTRY_SIZE)) \o U16Bytes(0) \o U16Bytes(HDR_SIZE)

\* The header SlottedPage::init writes
HeaderPayload == U16Bytes(HDR_SIZE) \o U16Bytes(PAGE_SIZE) \o U16Bytes(0)

ChosenPayloads == {<<>>, EntryPayload, HeaderPayload}

ChosenSlots == 0..1

InitSlots ==
    /\ page = init(ZeroPage)
    /\ pageOp = Call("init", 0, <<>>, None)
    /\ bpm = None
    /\ poolOp = None
    /\ unpinned = None
    /\ pages = None
    /\ heapOp = None
    /\ issued = {}
    /\ clock = None
    /\ clockOp = None
    /\ threads = None
    /\ locks = None
    /\ lockOp = None
    /\ inserted = 0
    /\ disk = None
    /\ diskOp = None
    /\ calls = 0
    /\ panicked = FALSE
    /\ overflow_checks \in BOOLEAN

\* One call on the page with result r
SlotsStep(r, op, slot, tuple) ==
    /\ ~panicked
    /\ calls < MaxSlotCalls
    /\ calls' = calls + 1
    /\ panicked' = r.panic
    /\ page' = IF r.panic THEN page ELSE r.buf
    /\ pageOp' = Call(op, slot, tuple, r.ret)
    /\ inserted' = IF op = "insert" /\ ~r.panic /\ r.ret # None THEN inserted + 1
                   ELSE inserted
    /\ UNCHANGED <<poolVars, heapVars, clockVars, diskVars, lockVars, overflow_checks>>

SlotsInsert == \E t \in ChosenPayloads : SlotsStep(insert(page, t), "insert", 0, t)

SlotsUpdate ==
    \E s \in ChosenSlots, t \in ChosenPayloads : SlotsStep(update(page, s, t), "update", s, t)

SlotsDelete == \E s \in ChosenSlots : SlotsStep(delete(page, s), "delete", s, <<>>)

SlotsCompact == SlotsStep(compact(page), "compact", 0, <<>>)

NextSlots == SlotsInsert \/ SlotsUpdate \/ SlotsDelete \/ SlotsCompact

SpecSlots == InitSlots /\ [][NextSlots]_vars

\* C17: slot ids are never reused: over any sequence of insert, update,
\* delete and compact, each insert that returns a slot returns the number
\* of inserts that returned a slot before it, which is num_slots before the
\* call.
C17_SlotIdsNeverReused ==
    [][(pageOp'.op = "insert" /\ calls' = calls + 1 /\ ~panicked' /\ pageOp'.ret # None)
         => /\ pageOp'.ret = Some(inserted)
            /\ pageOp'.ret = Some(num_slots(page))]_vars

\* C18: delete(s) returns false and changes nothing when s >= num_slots or
\* slot s is already deleted; otherwise it returns true, read(s) becomes
\* None, and free_start, free_end, num_slots and what read returns for
\* every other slot stay as they were.
C18_DeleteFrame ==
    [][(pageOp'.op = "delete" /\ calls' = calls + 1 /\ ~panicked') =>
         IF \/ pageOp'.slot >= num_slots(page)
            \/ read_slot(page, pageOp'.slot).len = INVALID_SLOT
         THEN /\ pageOp'.ret = FALSE
              /\ page' = page
         ELSE /\ pageOp'.ret = TRUE
              /\ read(page', pageOp'.slot) = Ret(page', None)
              /\ free_start(page') = free_start(page)
              /\ free_end(page') = free_end(page)
              /\ num_slots(page') = num_slots(page)
              /\ \A t \in PageSlots \ {pageOp'.slot} :
                    /\ read(page', t).panic = read(page, t).panic
                    /\ read(page', t).ret = read(page, t).ret]_vars

(***************************************************************************)
(* The disk manager on its own: one session on a fresh file or on a file   *)
(* an earlier run left behind, with write_page, read_page and              *)
(* allocate_page calls in any order.                                       *)
(***************************************************************************)
DiskPageIds == 0..MaxDiskPageId

InitDisk ==
    /\ \E db_file \in BackingFiles : disk = DiskManagerNew(db_file)
    /\ diskOp = DiskCall("new", None, 0, {})
    /\ page = ZeroPage
    /\ pageOp = None
    /\ inserted = 0
    /\ bpm = None
    /\ poolOp = None
    /\ unpinned = None
    /\ pages = None
    /\ heapOp = None
    /\ issued = {}
    /\ clock = None
    /\ clockOp = None
    /\ threads = None
    /\ locks = None
    /\ lockOp = None
    /\ calls = 0
    /\ panicked = FALSE
    /\ overflow_checks = FALSE

\* One call on the disk manager: d is the disk manager after it, ok says
\* the call returned (it panics otherwise)
DiskStep(d, ok, op, ret, page_id, used) ==
    /\ ~panicked
    /\ calls < MaxDiskCalls
    /\ calls' = calls + 1
    /\ panicked' = ~ok
    /\ disk' = IF ok THEN d ELSE disk
    /\ diskOp' = DiskCall(op, IF ok THEN ret ELSE None, page_id,
                          IF ok THEN used ELSE diskOp.used)
    /\ UNCHANGED <<pageVars, poolVars, heapVars, clockVars, lockVars, overflow_checks>>

DiskWrite ==
    \E page_id \in DiskPageIds, b \in {1, 2}, io_ok \in BOOLEAN :
        DiskStep(WritePage(disk, page_id, FilledPage(b)), io_ok, "write_page", None, page_id,
                 diskOp.used \cup {page_id})

DiskRead ==
    \E page_id \in DiskPageIds, io_ok \in BOOLEAN :
        DiskStep(disk, io_ok /\ CanRead(disk, page_id), "read_page",
                 IF CanRead(disk, page_id) THEN Some(ReadPage(disk, page_id)) ELSE None,
                 page_id, diskOp.used)

DiskAllocate ==
    \E io_ok \in BOOLEAN :
        /\ NewPageId(disk) <= MaxDiskPageId
        /\ DiskStep(AllocatePage(disk), io_ok, "allocate_page", Some(NewPageId(disk)),
                    NewPageId(disk), diskOp.used \cup {NewPageId(disk)})

NextDisk == DiskWrite \/ DiskRead \/ DiskAllocate

SpecDisk == InitDisk /\ [][NextDisk]_vars

\* C20: allocate_page returns num_pages + 1 for num_pages before the call:
\* never 0, 1 when it is the first call that writes on a freshly opened
\* DiskManager, and always an id greater than every id allocate_page
\* returned or write_page was given before in the session.
C20_AllocateNumbering ==
    [][(diskOp'.op = "allocate_page" /\ calls' = calls + 1 /\ ~panicked') =>
         /\ diskOp'.ret = Some(disk.num_pages + 1)
         /\ diskOp'.ret # Some(0)
         /\ diskOp.used = {} => diskOp'.ret = Some(1)
         /\ \A id \in diskOp.used : diskOp'.ret[1] > id]_vars

\* allocate_page returned an id after write_page and allocate_page calls
\* that used up ids beyond 1
C20_Witness ==
    /\ diskOp.op = "allocate_page"
    /\ diskOp.ret # None
    /\ diskOp.ret[1] > 3
    /\ Cardinality(diskOp.used) >= 3

(***************************************************************************)
(* Threads and locks.  Each thread owns a HeapFile and runs insert_tuple   *)
(* and read_tuple on it; the heap files share one                          *)
(* Arc<Mutex<BufferPoolManager>>.  A step of a thread runs from one        *)
(* lock() that can block to the next: the step is enabled when the mutex   *)
(* it asks for is free.  The disk lock is only asked for under the pool    *)
(* lock, so it is taken and released inside a step.                        *)
(***************************************************************************)
ThreadIds == 1..MaxThreads

LockPayloads == {Repeat(7, n) : n \in {1, PAGE_SIZE - 10, PAGE_SIZE - 9}}

\* A thread between two calls, its HeapFile holding the pages pgs
IdleThread(pgs, left) ==
    Thread("none", 0, <<>>, TupleId(0, 0), 0, "idle", 0, pgs, None, FALSE, left)

\* The kinds of lock thread t holds
Held(t) ==
    (IF locks.pool_lock = t THEN {"pool"} ELSE {})
    \cup (IF \E f \in DOMAIN locks.frame_locks : locks.frame_locks[f] = t
          THEN {"frame"} ELSE {})
    \cup (IF locks.disk_lock = t THEN {"disk"} ELSE {})

\* The holder of a frame's mutex after the block that locked it in
\* insert_tuple / read_tuple ends: the guard is dropped with the block
GuardKept(holder) == holder

DropGuard(holder) == 0

\* fetch_page, the part after the frame was picked: the frame's fields are
\* set under its lock, the page is read under the disk lock, the page table
\* and the replacer are updated
LoadFrame(b, frame_id, page_id) ==
    IF ~CanRead(b.disk_manager, page_id) THEN
        PoolPanic([b EXCEPT !.buffer_pool[frame_id] = Frame(page_id, @.data, FALSE, 1)])
    ELSE PoolRet(
           [b EXCEPT
              !.buffer_pool[frame_id] =
                  Frame(page_id, ReadPage(b.disk_manager, page_id), FALSE, 1),
              !.page_table = TableInsert(b.page_table, page_id, frame_id),
              !.replacer = pin(b.replacer, frame_id)],
           Some(frame_id))

InitLocks ==
    /\ \E pool_size \in 1..MaxPool :
        /\ bpm = BufferPoolManagerNew(pool_size, DiskManagerNew(<<>>))
        /\ locks = Locks(0, [f \in 0..(pool_size - 1) |-> 0], 0)
    /\ threads = [t \in ThreadIds |-> IdleThread(<<>>, MaxThreadCalls)]
    /\ lockOp = <<>>
    /\ issued = {}
    /\ poolOp = None
    /\ unpinned = <<>>
    /\ pages = <<>>
    /\ heapOp = None
    /\ page = ZeroPage
    /\ pageOp = None
    /\ inserted = 0
    /\ disk = None
    /\ diskOp = None
    /\ clock = None
    /\ clockOp = None
    /\ calls = 0
    /\ panicked = FALSE
    /\ overflow_checks = FALSE

\* The frame whose lock thread t asks for next: the resident page's frame in
\* fetch_page and unpin_page, else the frame fetch_page picks, else the
\* frame the thread holds a handle of (None: no frame lock is asked for)
FrameWanted(t) ==
    LET th == threads[t]
    IN  IF th.pc \in {"fetching", "unpinning"} /\ Resident(bpm, th.page_id)
        THEN Some(bpm.page_table[th.page_id])
        ELSE IF th.pc = "fetching" /\ bpm.free_list # <<>>
        THEN Some(bpm.free_list[Len(bpm.free_list)])
        ELSE IF th.pc = "fetching" THEN victim(bpm.replacer).ret
        ELSE IF th.pc \in {"loading", "use"} THEN Some(th.frame_id)
        ELSE None

\* Thread t is blocked in lock(): the mutex it asks for next is held
Waits(t) ==
    \/ threads[t].pc \in {"fetch", "alloc", "unpin"} /\ locks.pool_lock # 0
    \/ /\ \/ threads[t].pc \in {"allocating", "loading"}
          \/ threads[t].pc = "fetching" /\ ~Resident(bpm, threads[t].page_id)
                                        /\ FrameWanted(t) # None
       /\ locks.disk_lock # 0
    \/ FrameWanted(t) # None /\ locks.frame_locks[FrameWanted(t)[1]] # 0

\* One step of thread t: th is the thread, b the pool and lk the locks after
\* it, acquired the locks it took, in order
LockStep(t, th, b, lk, acquired, panic) ==
    /\ ~panicked
    /\ ~Waits(t)
    /\ threads' = [threads EXCEPT ![t] = th]
    /\ bpm' = b
    /\ locks' = lk
    /\ lockOp' = acquired
    /\ panicked' = panic
    /\ UNCHANGED <<pageVars, poolOp, unpinned, pages, heapOp, clockVars, diskVars, calls,
                   overflow_checks>>

\* The thread returns from the call
Returned(th, pgs) == IdleThread(pgs, th.calls_left)

\* A thread calls insert_tuple: with no page in the HeapFile the loop is
\* skipped
StartInsert(t) ==
    \E data \in LockPayloads :
        LET th == threads[t]
            pgs == th.heap_pages
        IN  /\ th.pc = "idle"
            /\ th.calls_left > 0
            /\ LockStep(t, Thread("insert_tuple", IF pgs = <<>> THEN 0 ELSE pgs[1], data,
                                  TupleId(0, 0), 0, IF pgs = <<>> THEN "alloc" ELSE "fetch",
                                  1, pgs, None, pgs = <<>>, th.calls_left - 1),
                        bpm, locks, <<>>, FALSE)
            /\ UNCHANGED issued

\* A thread calls read_tuple with a TupleId some insert_tuple returned
StartRead(t) ==
    \E e \in issued :
        LET th == threads[t]
        IN  /\ th.pc = "idle"
            /\ th.calls_left > 0
            /\ LockStep(t, Thread("read_tuple", e[1].page_id, <<>>, e[1], 0, "fetch", 0,
                                  th.heap_pages, None, FALSE, th.calls_left - 1),
                        bpm, locks, <<>>, FALSE)
            /\ UNCHANGED issued

\* self.buffer_pool_manager.lock(): before fetch_page, before
\* allocate_page, before unpin_page
LockPool(t) ==
    LET th == threads[t]
    IN  /\ th.pc \in {"fetch", "alloc", "unpin"}
        /\ LockStep(t, [th EXCEPT !.pc = CASE th.pc = "fetch" -> "fetching"
                                          [] th.pc = "alloc" -> "allocating"
                                          [] OTHER -> "unpinning"],
                    bpm, [locks EXCEPT !.pool_lock = t],
                    <<Acquire(t, "pool", Held(t))>>, FALSE)
        /\ UNCHANGED issued

\* bpm.disk_manager.lock().unwrap().allocate_page() under the pool lock
Allocate(t) ==
    LET th == threads[t]
    IN  /\ th.pc = "allocating"
        /\ LockStep(t, [th EXCEPT !.pc = "fetching",
                                  !.page_id = NewPageId(bpm.disk_manager)],
                    [bpm EXCEPT !.disk_manager = AllocatePage(bpm.disk_manager)],
                    locks, <<Acquire(t, "disk", Held(t))>>, FALSE)
        /\ UNCHANGED issued

\* fetch_page under the pool lock, up to its return or to the second
\* lock() of the frame it evicts: the frame's lock is taken for the pin
\* (page resident), for the load (frame from the free list) or for the
\* eviction (victim); the pool lock is dropped when fetch_page returns
FetchHit(t) ==
    LET th == threads[t]
        frame_id == bpm.page_table[th.page_id]
    IN  /\ th.pc = "fetching"
        /\ Resident(bpm, th.page_id)
        /\ LockStep(t, [th EXCEPT !.pc = "use", !.frame_id = frame_id],
                    fetch_page(bpm, th.page_id, TRUE).bpm,
                    [locks EXCEPT !.pool_lock = 0],
                    <<Acquire(t, "frame", Held(t))>>, FALSE)
        /\ UNCHANGED issued

FetchFree(t) ==
    LET th == threads[t]
        frame_id == bpm.free_list[Len(bpm.free_list)]
    IN  /\ th.pc = "fetching"
        /\ ~Resident(bpm, th.page_id)
        /\ bpm.free_list # <<>>
        /\ LockStep(t, [th EXCEPT !.pc = "use", !.frame_id = frame_id],
                    fetch_page(bpm, th.page_id, TRUE).bpm,
                    [locks EXCEPT !.pool_lock = 0],
                    <<Acquire(t, "frame", Held(t)),
                      Acquire(t, "disk", Held(t) \cup {"frame"})>>,
                    fetch_page(bpm, th.page_id, TRUE).panic)
        /\ UNCHANGED issued

FetchNone(t) ==
    LET th == threads[t]
    IN  /\ th.pc = "fetching"
        /\ ~Resident(bpm, th.page_id)
        /\ bpm.free_list = <<>>
        /\ victim(bpm.replacer).ret = None
        /\ LockStep(t, Returned(th, th.heap_pages), PickFrame(bpm, TRUE).bpm,
                    [locks EXCEPT !.pool_lock = 0], <<>>, FALSE)
        /\ UNCHANGED issued

FetchEvict(t) ==
    LET th == threads[t]
        v == victim(bpm.replacer)
    IN  /\ th.pc = "fetching"
        /\ ~Resident(bpm, th.page_id)
        /\ bpm.free_list = <<>>
        /\ v.ret # None
        /\ LockStep(t, [th EXCEPT !.pc = "loading", !.frame_id = v.ret[1]],
                    PickFrame(bpm, TRUE).bpm, locks,
                    IF bpm.buffer_pool[v.ret[1]].is_dirty
                    THEN <<Acquire(t, "frame", Held(t)),
                           Acquire(t, "disk", Held(t) \cup {"frame"})>>
                    ELSE <<Acquire(t, "frame", Held(t))>>,
                    FALSE)
        /\ UNCHANGED issued

\* fetch_page after the eviction: frame.lock() again, the load under the
\* disk lock, the return
Load(t) ==
    LET th == threads[t]
    IN  /\ th.pc = "loading"
        /\ LockStep(t, [th EXCEPT !.pc = "use"],
                    LoadFrame(bpm, th.frame_id, th.page_id).bpm,
                    [locks EXCEPT !.pool_lock = 0],
                    <<Acquire(t, "frame", Held(t)),
                      Acquire(t, "disk", Held(t) \cup {"frame"})>>,
                    LoadFrame(bpm, th.frame_id, th.page_id).panic)
        /\ UNCHANGED issued

\* frame.lock() in insert_tuple / read_tuple, after the pool guard was
\* dropped
LockFrame(t) ==
    LET th == threads[t]
    IN  /\ th.pc = "use"
        /\ LockStep(t, [th EXCEPT !.pc = "using"], bpm,
                    [locks EXCEPT !.frame_locks[th.frame_id] = t],
                    <<Acquire(t, "frame", Held(t))>>, FALSE)
        /\ UNCHANGED issued

\* The block under the frame lock: SlottedPage::insert on the page (after
\* SlottedPage::init on a fresh one) or SlottedPage::read, r its result. On
\* a fresh page insert's None returns from insert_tuple at once.
UseDone(t, r) ==
    LET th == threads[t]
        gaveUp == th.op = "insert_tuple" /\ th.is_fresh /\ r.ret = None
    IN  /\ LockStep(t,
                    IF gaveUp THEN Returned(th, th.heap_pages)
                    ELSE [th EXCEPT !.pc = "unpin", !.slot_opt = r.ret],
                    IF th.op = "insert_tuple"
                    THEN WithData(bpm, th.frame_id, r.buf, r.ret # None)
                    ELSE bpm,
                    [locks EXCEPT !.frame_locks[th.frame_id] =
                                      IF gaveUp THEN 0 ELSE DropGuard(t)],
                    <<>>, r.panic)
        /\ UNCHANGED issued

Use(t) ==
    LET th == threads[t]
        buf == bpm.buffer_pool[th.frame_id].data
    IN  /\ th.pc = "using"
        /\ UseDone(t, IF th.op = "read_tuple" THEN read(buf, th.tid.slot_id)
                      ELSE IF th.is_fresh THEN insert(init(buf), th.data)
                      ELSE insert(buf, th.data))

\* unpin_page under the pool lock, and what follows it: the return, or the
\* next turn of insert_tuple's loop, or the fresh page after the loop
Unpin(t) ==
    LET th == threads[t]
        found == th.slot_opt # None
        more == th.loop_idx < Len(th.heap_pages)
    IN  /\ th.pc = "unpinning"
        /\ LockStep(t,
                    IF th.op = "read_tuple" THEN Returned(th, th.heap_pages)
                    ELSE IF found THEN
                        Returned(th, IF th.is_fresh THEN Append(th.heap_pages, th.page_id)
                                     ELSE th.heap_pages)
                    ELSE [th EXCEPT !.pc = IF more THEN "fetch" ELSE "alloc",
                                    !.loop_idx = @ + 1,
                                    !.page_id = IF more THEN th.heap_pages[th.loop_idx + 1]
                                                ELSE 0,
                                    !.is_fresh = ~more],
                    unpin_page(bpm, th.page_id, th.op = "insert_tuple" /\ found).bpm,
                    [locks EXCEPT !.pool_lock = 0],
                    IF Resident(bpm, th.page_id) THEN <<Acquire(t, "frame", Held(t))>>
                    ELSE <<>>,
                    FALSE)
        /\ issued' = IF th.op = "insert_tuple" /\ found
                     THEN issued \cup {<<TupleId(th.page_id, th.slot_opt[1]), th.data>>}
                     ELSE issued

ThreadRuns(t) ==
    \/ LockPool(t)
    \/ Allocate(t)
    \/ FetchHit(t)
    \/ FetchFree(t)
    \/ FetchNone(t)
    \/ FetchEvict(t)
    \/ Load(t)
    \/ LockFrame(t)
    \/ Use(t)
    \/ Unpin(t)

NextLocks == \E t \in ThreadIds : StartInsert(t) \/ StartRead(t) \/ ThreadRuns(t)

SpecLocks == InitLocks /\ [][NextLocks]_vars

\* C19: with several threads running insert_tuple and read_tuple on heap
\* files that share one buffer pool, every lock is taken in the order pool
\* lock, frame lock, disk lock (a thread that takes the pool lock holds no
\* lock, one that takes a frame lock holds at most the pool lock, one that
\* takes the disk lock does not hold it already), no thread asks for the
\* pool lock while it holds a frame lock, and whenever a call is under way
\* some thread can take a step.
C19_LockOrderNoDeadlock ==
    /\ \A i \in DOMAIN lockOp :
        /\ lockOp[i].lock_kind = "pool" => lockOp[i].held_kinds = {}
        /\ lockOp[i].lock_kind = "frame" => lockOp[i].held_kinds \subseteq {"pool"}
        /\ lockOp[i].lock_kind = "disk" => "disk" \notin lockOp[i].held_kinds
    /\ \A t \in ThreadIds :
        threads[t].pc \in {"fetch", "alloc", "unpin"} => "frame" \notin Held(t)
    /\ (~panicked /\ \E t \in ThreadIds : threads[t].pc # "idle")
        => \E t \in ThreadIds : threads[t].pc # "idle" /\ ~Waits(t)

\* A thread holds the pool lock inside unpin_page or fetch_page and waits
\* for the lock of a frame that another thread holds inside insert_tuple or
\* read_tuple
C19_Witness ==
    \E t \in ThreadIds, u \in ThreadIds :
        /\ t # u
        /\ locks.pool_lock = t
        /\ Waits(t)
        /\ FrameWanted(t) # None
        /\ locks.frame_locks[FrameWanted(t)[1]] = u
        /\ threads[u].pc = "using"

\* The bytes fetch_page hands out for a page: the frame's buffer when the
\* page is resident, else the page of the backing file
PageContent(b, page_id) ==
    IF Resident(b, page_id) THEN b.buffer_pool[b.page_table[page_id]].data
    ELSE ReadPage(b.disk_manager, page_id)

\* SlottedPage::insert of data succeeds on the page
Fits(b, page_id, data) == insert(PageContent(b, page_id), data).ret # None

\* The indices of the page list whose page accepts data
Accepting(b, pgs, data) == {k \in 1..Len(pgs) : Fits(b, pgs[k], data)}

\* The frame of a resident page is dirty
DirtyIn(b, page_id) ==
    Resident(b, page_id) /\ b.buffer_pool[b.page_table[page_id]].is_dirty

\* C21: insert_tuple is first-fit over the page list. A call that returns a
\* TupleId placed the tuple on the first listed page whose slotted-page
\* insert succeeds and left the list as it was, or, when every listed page
\* rejects the tuple, on a new page id that it appended to the list. The
\* pages before the accepting one were unpinned with dirty = false (a
\* frame that holds one of them is dirty only if it was dirty before the
\* call), the accepting page with dirty = true (its frame is dirty). Every
\* call leaves the list unchanged or appends one page id to it.
C21_FirstFit ==
    [][(heapOp'.op \in {"insert_tuple", "read_tuple"} /\ calls' = calls + 1 /\ ~panicked') =>
         /\ pages' = pages \/ (Len(pages') = Len(pages) + 1
                                /\ SubSeq(pages', 1, Len(pages)) = pages)
         /\ pages' # pages => heapOp'.op = "insert_tuple" /\ heapOp'.ret # None
         /\ (heapOp'.op = "insert_tuple" /\ heapOp'.ret # None) =>
              LET tid == heapOp'.ret[1]
                  fit == Accepting(bpm, pages, heapOp'.data)
              IN  /\ fit # {} =>
                        /\ pages' = pages
                        /\ \E k \in fit : /\ \A j \in fit : k <= j
                                          /\ tid.page_id = pages[k]
                                          /\ \A j \in 1..(k - 1) :
                                                DirtyIn(bpm', pages[j]) => DirtyIn(bpm, pages[j])
                  /\ fit = {} =>
                        /\ pages' = Append(pages, tid.page_id)
                        /\ \A j \in 1..Len(pages) :
                              /\ pages[j] # tid.page_id
                              /\ DirtyIn(bpm', pages[j]) => DirtyIn(bpm, pages[j])
                  /\ DirtyIn(bpm', tid.page_id)]_vars

\* insert_tuple placed a tuple in slot 1 of the second page of the list:
\* the first page rejected it and the second, already listed, accepted it
C21_Witness ==
    /\ heapOp.op = "insert_tuple"
    /\ Len(pages) = 2
    /\ heapOp.ret = Some(TupleId(pages[2], 1))

\* The frames on the free list, and the frames some resident page maps to
FreeFrames(b) == {b.free_list[i] : i \in DOMAIN b.free_list}

MappedFrames(b) == {b.page_table[p] : p \in DOMAIN b.page_table}

\* C22: after every fetch_page, new_page and unpin_page call that returns,
\* each frame index is either on the free list or in the range of
\* page_table, never both and never neither, and every frame the replacer
\* holds as a candidate is in the range of page_table with pin_count = 0.
C22_FramePartition ==
    ~panicked =>
        /\ \A f \in DOMAIN bpm.buffer_pool :
              (f \in FreeFrames(bpm)) # (f \in MappedFrames(bpm))
        /\ \A f \in DOMAIN bpm.replacer.frames :
              bpm.replacer.frames[f] # None =>
                  /\ f \in MappedFrames(bpm)
                  /\ bpm.buffer_pool[f].pin_count = 0

\* C23: insert_tuple and read_tuple are pin-neutral: when a call returns,
\* with Some or with None, every frame's pin_count is what it was when the
\* call started.
C23_PinNeutral ==
    [][(heapOp'.op \in {"insert_tuple", "read_tuple"} /\ calls' = calls + 1 /\ ~panicked') =>
         \A f \in DOMAIN bpm.buffer_pool :
             bpm'.buffer_pool[f].pin_count = bpm.buffer_pool[f].pin_count]_vars

\* The page ids in the page list of thread t's HeapFile
HeapPageIds(t) == {threads[t].heap_pages[i] : i \in DOMAIN threads[t].heap_pages}

\* No thread is inside a call
Quiescent == \A t \in ThreadIds : threads[t].pc = "idle"

\* C24: with two threads running insert_tuple on two heap files that share
\* one buffer pool, under every interleaving the page lists of the two heap
\* files hold disjoint page ids, and once the threads have returned every
\* TupleId an insert_tuple returned reads back, with read_tuple, the
\* payload it was returned for (read_tuple does not use self.pages).
C24_DisjointPagesReadBack ==
    /\ \A t \in ThreadIds, u \in ThreadIds :
          t # u => HeapPageIds(t) \cap HeapPageIds(u) = {}
    /\ Quiescent =>
          \A e \in issued : read_tuple(bpm, <<>>, e[1], TRUE).ret = Some(e[2])

====
